---- MODULE Spec2Model ----
(***************************************************************************)
(* The two LRU caches of the repository:                                   *)
(*   package lru   (src/lru.go)       - the eviction pass runs, deferred,  *)
(*                                      at the end of every Update and Get *)
(*                                      and also sweeps expired entries;   *)
(*   package cache (src/lru_cache.go) - the eviction pass runs only after  *)
(*                                      an insert and only enforces the    *)
(*                                      capacity; it also has Delete.      *)
(* Every public operation holds cache.mutex from its first to its last     *)
(* statement, so one operation is one step.  The variable `variant' says   *)
(* which of the two packages the cache was built from.                     *)
(***************************************************************************)
EXTENDS Integers, Sequences, FiniteSets, TLC

\* ---------------------------------------------------------------- bounds
MaxTime == 2      \* the clock runs over 0..MaxTime
MaxReq  == 2      \* cap on the request counter (Get and Delete calls)

Keys       == {"a", "b", "c"}
Values     == {"v1", "v2"}
Variants   == {"lru", "cache"}
Capacities == {0, 1, 2}     \* NewLRUCache(maxCount, ttl): maxCount
TTLs       == {-1, 0, 1, 2} \* NewLRUCache(maxCount, ttl): ttl

NoValue  == "nil"        \* the nil interface{} returned beside an error
NoKey    == "-"

\* the goroutines calling into one cache, and what SpecConc lets them pass
Callers        == {"g1", "g2"}
ConcKeys       == {"a", "b"}
ConcValues     == {"v1"}
ConcCapacities == {0, 1}
ConcTTLs       == {1}

NoHolder == "free"
NoCall   == [op |-> "none", key |-> NoKey, arg |-> NoValue, val |-> NoValue,
             err |-> "nil"]
NoSnap   == [c |-> <<>>, t1 |-> -1, t2 |-> -1]

\* history of a key with no entry: never updated; evicted for capacity or
\* deleted; removed as expired; or dropped though none of these applied
Never   == [state |-> "never",   at |-> -1, value |-> NoValue]
Evicted == [state |-> "evicted", at |-> -1, value |-> NoValue]
Expired == [state |-> "expired", at |-> -1, value |-> NoValue]
Lost    == [state |-> "lost",    at |-> -1, value |-> NoValue]

VARIABLES
    variant,     \* "lru" (src/lru.go) or "cache" (src/lru_cache.go)
    maxCount,    \* cache.maxCount
    ttl,         \* cache.ttl
    lruList,     \* cache.lruList: front-to-back sequence of elements,
                 \*   each [key, value, createAt] (a *list.Element with the
                 \*   *entry it holds).  An element's address is named by
                 \*   the key it was allocated for: Update allocates one
                 \*   only for a key with no map slot.
    lruMap,      \* cache.lruMap: key -> address of a list element
    keyCount,    \* cache.keyCount
    reqCount,    \* cache.reqCount / cache.totalReqTimes
    hitCount,    \* cache.hitCount / cache.totalHitTimes
    now,         \* what time.Now().Unix() returns
    ret,         \* the last call: operation, key, value passed, value and
                 \*   error returned, the branch it took, how many entries
                 \*   its eviction pass removed
    lastUpdate,  \* history: key -> time and value of its last Update
                 \*   while that entry is stored ("live"), else what became
                 \*   of it (Never, Evicted, Expired, Lost)
    touchOrder,  \* history: the stored keys in order of their last touch
                 \*   (Update, or Get that returned a value), oldest first
    mutex,       \* cache.mutex: the caller holding it, or NoHolder
    pc,          \* caller -> where it stands in its call (SpecConc)
    call,        \* caller -> the call it is in: operation, key, value
                 \*   passed, value and error it will return
    snap,        \* for the caller inside the critical section: the cache as
                 \*   mutex.Lock() returned, and the clock values read since
    seen         \* the last unlocked accessor read: the key count it
                 \*   returned and whether the mutex was held meanwhile

conc == <<mutex, pc, call, snap, seen>>

vars == <<variant, maxCount, ttl, lruList, lruMap, keyCount, reqCount,
          hitCount, now, ret, lastUpdate, touchOrder, conc>>

\* ------------------------------------------------------- container/list
Range(s) == {s[i] : i \in 1 .. Len(s)}

KeysOf(l) == [i \in 1 .. Len(l) |-> l[i].key]

KeySet(l) == {l[i].key : i \in 1 .. Len(l)}

\* the element at address ele
Element(l, ele) == CHOOSE e \in Range(l) : e.key = ele

\* list.Remove(ele): no-op when ele is not an element of the list
ListRemove(l, ele) == SelectSeq(l, LAMBDA e : e.key # ele)

\* a variant of MoveToBack that moves the element to the front
MutMoveToBack(l, ele) ==
    IF ele \in KeySet(l) THEN <<Element(l, ele)>> \o ListRemove(l, ele)
    ELSE l

\* list.MoveToBack(ele)
MoveToBack(l, ele) ==
    IF ele \in KeySet(l) THEN Append(ListRemove(l, ele), Element(l, ele))
    ELSE l

\* list.PushBack(item): a freshly allocated element, at the back
PushBack(l, item) == Append(l, item)

\* --------------------------------------------------------------- Go map
MapSet(m, k, v) == [x \in DOMAIN m \cup {k} |-> IF x = k THEN v ELSE m[x]]

MapDelete(m, k) == [x \in DOMAIN m \ {k} |-> m[x]]

\* ---------------------------------------------------------------- entry
\* a variant of SetEntry that overwrites the value and keeps the old createAt
MutSetEntryValueOnly(l, ele, value, t) ==
    [i \in 1 .. Len(l) |->
        IF l[i].key = ele THEN [l[i] EXCEPT !.value = value] ELSE l[i]]

\* a variant of SetEntry that refreshes createAt and keeps the old value
MutSetEntry(l, ele, value, t) ==
    [i \in 1 .. Len(l) |->
        IF l[i].key = ele THEN [l[i] EXCEPT !.createAt = t] ELSE l[i]]

\* item.value = value; item.createAt = time.Now().Unix()
SetEntry(l, ele, value, t) ==
    [i \in 1 .. Len(l) |->
        IF l[i].key = ele THEN [l[i] EXCEPT !.value = value, !.createAt = t]
        ELSE l[i]]

\* a variant of Valid that takes a ttl of 0 or less to mean "never expires"
MutValidNoExpiry(item, t) == ttl <= 0 \/ item.createAt + ttl > t

\* a variant of Valid that still accepts an entry at age ttl
MutValid(item, t) == item.createAt + ttl >= t

\* item.createAt+cache.ttl > time.Now().Unix()
Valid(item, t) == item.createAt + ttl > t

\* the cache as one value: c.lruList, c.lruMap, c.keyCount, c.reqCount, c.hitCount
Cache == [lruList |-> lruList, lruMap |-> lruMap, keyCount |-> keyCount,
          reqCount |-> reqCount, hitCount |-> hitCount]

\* a variant of CountRequest that forgets the increment
MutCountRequest(c) == c

\* cache.reqCount++ / cache.totalReqTimes++
CountRequest(c) == [c EXCEPT !.reqCount = c.reqCount + 1]

\* a variant of CountHit that bumps the request counter a second time
MutCountHit(c) == [c EXCEPT !.reqCount = c.reqCount + 1]

\* cache.hitCount++ / cache.totalHitTimes++
CountHit(c) == [c EXCEPT !.hitCount = c.hitCount + 1]

\* the body shared by both Update methods, up to the eviction pass
UpdateBody(c, key, value, t) ==
    IF key \in DOMAIN c.lruMap
    THEN [c EXCEPT !.lruList =
              MoveToBack(SetEntry(c.lruList, c.lruMap[key], value, t),
                         c.lruMap[key])]
    ELSE [c EXCEPT
             !.lruList  = PushBack(c.lruList,
                                   [key |-> key, value |-> value,
                                    createAt |-> t]),
             !.lruMap   = MapSet(c.lruMap, key, key),
             !.keyCount = c.keyCount + 1]

\* the body shared by both Get methods, up to the deferred calls:
\* the cache it leaves, and the value and error it returns
GetBody(c, key, t) ==
    LET counted == CountRequest(c) IN
    IF key \in DOMAIN c.lruMap
    THEN LET ele  == c.lruMap[key]
             item == Element(c.lruList, ele)
         IN  IF Valid(item, t)
             THEN [c |-> [CountHit(counted) EXCEPT
                            !.lruList  = MoveToBack(c.lruList, ele)],
                   val |-> item.value, err |-> "nil", branch |-> "hit"]
             ELSE [c |-> [counted EXCEPT
                            !.lruList  = ListRemove(c.lruList, ele),
                            !.lruMap   = MapDelete(c.lruMap, key),
                            !.keyCount = c.keyCount - 1],
                   val |-> NoValue, err |-> "NotFound", branch |-> "expire"]
    ELSE [c |-> counted, val |-> NoValue, err |-> "NotFound",
          branch |-> "miss"]

\* src/lru_cache.go Delete
DeleteBody(c, key) ==
    LET counted == CountRequest(c) IN
    IF key \in DOMAIN c.lruMap
    THEN [c |-> [CountHit(counted) EXCEPT
                    !.lruList  = ListRemove(c.lruList, c.lruMap[key]),
                    !.lruMap   = MapDelete(c.lruMap, key),
                    !.keyCount = c.keyCount - 1],
          val |-> NoValue, err |-> "nil", branch |-> "hit"]
    ELSE [c |-> counted, val |-> NoValue, err |-> "NotFound",
          branch |-> "miss"]

\* a variant of RemoveFront that deletes the map slot and forgets
\* lruList.Remove(front) and keyCount--
MutRemoveFrontMapOnly(c) ==
    [c EXCEPT !.lruMap = MapDelete(c.lruMap, Head(c.lruList).key)]

\* a variant of RemoveFront that forgets keyCount--
MutRemoveFront(c) ==
    [c EXCEPT !.lruList = Tail(c.lruList),
              !.lruMap  = MapDelete(c.lruMap, Head(c.lruList).key)]

\* one iteration's removal, the same in both checkWithLocked loops:
\* lruList.Remove(front); delete(lruMap, e.key); keyCount--
RemoveFront(c) ==
    [c EXCEPT !.lruList  = Tail(c.lruList),
              !.lruMap   = MapDelete(c.lruMap, Head(c.lruList).key),
              !.keyCount = c.keyCount - 1]

\* src/lru.go checkWithLocked; t is the clock value the pass reads
RECURSIVE LruCheckWithLocked(_, _)
LruCheckWithLocked(c, t) ==
    IF c.lruList = <<>> THEN c
    ELSE IF c.keyCount <= maxCount /\ t < Head(c.lruList).createAt + ttl
         THEN c
         ELSE LruCheckWithLocked(RemoveFront(c), t)

\* a variant of the pass of src/lru_cache.go that never removes the last
\* element of the list
RECURSIVE MutCacheCheckWithLocked(_)
MutCacheCheckWithLocked(c) ==
    IF c.keyCount > maxCount /\ Len(c.lruList) > 1
    THEN MutCacheCheckWithLocked(RemoveFront(c))
    ELSE c

\* src/lru_cache.go checkWithLocked
RECURSIVE CacheCheckWithLocked(_)
CacheCheckWithLocked(c) ==
    IF c.keyCount > maxCount /\ c.lruList # <<>>
    THEN CacheCheckWithLocked(RemoveFront(c))
    ELSE c

\* ------------------------------------------------------ the public methods
\* a variant of LruUpdate that counts the call as a request
MutLruUpdate(c, key, value, t1, t2) ==
    LruCheckWithLocked(UpdateBody(CountRequest(c), key, value, t1), t2)

\* src/lru.go Update: the body, then the deferred checkWithLocked, which
\* reads the clock again (t2 >= t1)
LruUpdate(c, key, value, t1, t2) ==
    LruCheckWithLocked(UpdateBody(c, key, value, t1), t2)

\* a variant of LruGet without the deferred checkWithLocked
MutLruGet(c, key, t1, t2) == GetBody(c, key, t1)

\* src/lru.go Get: the result is fixed by the body; the deferred pass follows
LruGet(c, key, t1, t2) ==
    LET r == GetBody(c, key, t1) IN
    [r EXCEPT !.c = LruCheckWithLocked(r.c, t2)]

\* a variant of CacheUpdate that never calls checkWithLocked
MutCacheUpdate(c, key, value, t) == UpdateBody(c, key, value, t)

\* src/lru_cache.go Update: the pass runs in the insert branch only
CacheUpdate(c, key, value, t) ==
    IF key \in DOMAIN c.lruMap
    THEN UpdateBody(c, key, value, t)
    ELSE CacheCheckWithLocked(UpdateBody(c, key, value, t))

\* a variant of CacheGet that ends with the sweeping pass of src/lru.go
MutCacheGetSweep(c, key, t) ==
    LET r == GetBody(c, key, t) IN
    [r EXCEPT !.c = LruCheckWithLocked(r.c, t)]

\* a variant of CacheGet whose keyCount-- is also reached on a miss
MutCacheGet(c, key, t) ==
    LET r == GetBody(c, key, t) IN
    IF r.branch = "miss"
    THEN [r EXCEPT !.c = [r.c EXCEPT !.keyCount = c.keyCount - 1]]
    ELSE r

\* src/lru_cache.go Get
CacheGet(c, key, t) == GetBody(c, key, t)

\* a variant of CacheDelete that does not count the removal as a hit
MutCacheDelete(c, key) ==
    LET r == DeleteBody(c, key) IN
    [r EXCEPT !.c = [r.c EXCEPT !.hitCount = c.hitCount]]

\* src/lru_cache.go Delete
CacheDelete(c, key) == DeleteBody(c, key)

\* ------------------------------------------------------------- history
Max(x, y) == IF x >= y THEN x ELSE y
Min(x, y) == IF x <= y THEN x ELSE y

\* the keys a pass removed while keyCount > maxCount, given the cache the
\* pass started from and the one it left: the pass removes from the front,
\* and keyCount falls by one with each removal
CapacityEvicted(before, after) ==
    LET n    == Len(before.lruList) - Len(after.lruList)
        over == Max(0, before.keyCount - maxCount)
    IN  {before.lruList[i].key : i \in 1 .. Min(n, over)}

\* the history after Update(key, value) read the clock at t
Updated(h, key, value, t) ==
    [h EXCEPT ![key] = [state |-> "live", at |-> t, value |-> value]]

\* the history after the entries of the keys in `gone' left the list at clock
\* value t: those in `forced' for capacity or by Delete; of the others, those
\* whose last Update is ttl or more before t as expired
Dropped(h, gone, forced, t) ==
    [k \in Keys |->
        IF k \notin gone THEN h[k]
        ELSE IF k \in forced THEN Evicted
        ELSE IF h[k].state = "live" /\ t - h[k].at >= ttl THEN Expired
        ELSE Lost]

SeqWithout(s, k) == SelectSeq(s, LAMBDA x : x # k)

\* the touch order after `touched' (a set of at most one key) was touched,
\* kept to the keys the list still holds
Touched(order, touched, l) ==
    LET moved == IF touched = {} THEN order
                 ELSE LET k == CHOOSE x \in touched : TRUE
                      IN  Append(SeqWithout(order, k), k)
    IN  SelectSeq(moved, LAMBDA x : x \in KeySet(l))

Store(c) ==
    /\ lruList'  = c.lruList
    /\ lruMap'   = c.lruMap
    /\ keyCount' = c.keyCount
    /\ reqCount' = c.reqCount
    /\ hitCount' = c.hitCount

Result(op, key, arg, val, err, branch, swept) ==
    [op |-> op, key |-> key, arg |-> arg, val |-> val, err |-> err,
     branch |-> branch, swept |-> swept]

\* ------------------------------------------------------------- actions
Init ==
    /\ variant \in Variants
    /\ maxCount \in Capacities
    /\ ttl \in TTLs
    /\ lruList = <<>>
    /\ lruMap = <<>>
    /\ keyCount = 0
    /\ reqCount = 0
    /\ hitCount = 0
    /\ now = 0
    /\ ret = Result("New", NoKey, NoValue, NoValue, "nil", "none", 0)
    /\ lastUpdate = [k \in Keys |-> Never]
    /\ touchOrder = <<>>
    /\ mutex = NoHolder
    /\ pc = [p \in Callers |-> "idle"]
    /\ call = [p \in Callers |-> NoCall]
    /\ snap = NoSnap
    /\ seen = [keyCount |-> 0, locked |-> FALSE]

\* the clock advances between calls
Tick ==
    /\ now < MaxTime
    /\ now' = now + 1
    /\ ret' = Result("Tick", NoKey, NoValue, NoValue, "nil", "none", 0)
    /\ UNCHANGED <<variant, maxCount, ttl, lruList, lruMap, keyCount,
                   reqCount, hitCount, lastUpdate, touchOrder, conc>>

\* src/lru.go Update(key, value); the clock may advance by d between the
\* body's time.Now() and the pass's
LruUpdateCall ==
    /\ variant = "lru"
    /\ \E key \in Keys, value \in Values, d \in 0 .. 1 :
        /\ now + d <= MaxTime
        /\ LET body  == UpdateBody(Cache, key, value, now)
               after == LruUpdate(Cache, key, value, now, now + d)
           IN  /\ Store(after)
               /\ now' = now + d
               /\ ret' = Result("Update", key, value, NoValue, "nil",
                                IF key \in DOMAIN lruMap THEN "exist" ELSE "new",
                                Len(body.lruList) - Len(after.lruList))
               /\ lastUpdate' =
                      Dropped(Updated(lastUpdate, key, value, now),
                              KeySet(body.lruList) \ KeySet(after.lruList),
                              CapacityEvicted(body, after), now + d)
               /\ touchOrder' = Touched(touchOrder, {key}, after.lruList)
    /\ UNCHANGED <<variant, maxCount, ttl, conc>>

\* src/lru.go Get(key)
LruGetCall ==
    /\ variant = "lru"
    /\ reqCount < MaxReq
    /\ \E key \in Keys, d \in 0 .. 1 :
        /\ now + d <= MaxTime
        /\ LET body  == GetBody(Cache, key, now)
               after == LruGet(Cache, key, now, now + d)
           IN  /\ Store(after.c)
               /\ now' = now + d
               /\ ret' = Result("Get", key, NoValue, after.val, after.err, after.branch,
                                Len(body.c.lruList) - Len(after.c.lruList))
               /\ lastUpdate' =
                      Dropped(Dropped(lastUpdate,
                                      KeySet(lruList) \ KeySet(body.c.lruList),
                                      {}, now),
                              KeySet(body.c.lruList) \ KeySet(after.c.lruList),
                              CapacityEvicted(body.c, after.c), now + d)
               /\ touchOrder' =
                      Touched(touchOrder,
                              IF after.branch = "hit" THEN {key} ELSE {},
                              after.c.lruList)
    /\ UNCHANGED <<variant, maxCount, ttl, conc>>

\* src/lru_cache.go Update(key, value)
CacheUpdateCall ==
    /\ variant = "cache"
    /\ \E key \in Keys, value \in Values :
        LET body  == UpdateBody(Cache, key, value, now)
            after == CacheUpdate(Cache, key, value, now)
        IN  /\ Store(after)
            /\ ret' = Result("Update", key, value, NoValue, "nil",
                             IF key \in DOMAIN lruMap THEN "exist" ELSE "new",
                             Len(body.lruList) - Len(after.lruList))
            /\ lastUpdate' =
                   Dropped(Updated(lastUpdate, key, value, now),
                           KeySet(body.lruList) \ KeySet(after.lruList),
                           CapacityEvicted(body, after), now)
            /\ touchOrder' = Touched(touchOrder, {key}, after.lruList)
    /\ UNCHANGED <<variant, maxCount, ttl, now, conc>>

\* src/lru_cache.go Get(key)
CacheGetCall ==
    /\ variant = "cache"
    /\ reqCount < MaxReq
    /\ \E key \in Keys :
        LET after == CacheGet(Cache, key, now)
        IN  /\ Store(after.c)
            /\ ret' = Result("Get", key, NoValue, after.val, after.err, after.branch, 0)
            /\ lastUpdate' =
                   Dropped(lastUpdate, KeySet(lruList) \ KeySet(after.c.lruList),
                           {}, now)
            /\ touchOrder' =
                   Touched(touchOrder,
                           IF after.branch = "hit" THEN {key} ELSE {},
                           after.c.lruList)
    /\ UNCHANGED <<variant, maxCount, ttl, now, conc>>

\* src/lru_cache.go Delete(key)
CacheDeleteCall ==
    /\ variant = "cache"
    /\ reqCount < MaxReq
    /\ \E key \in Keys :
        LET after == CacheDelete(Cache, key)
        IN  /\ Store(after.c)
            /\ ret' = Result("Delete", key, NoValue, after.val, after.err,
                             after.branch, 0)
            /\ lastUpdate' =
                   Dropped(lastUpdate, KeySet(lruList) \ KeySet(after.c.lruList),
                           {key}, now)
            /\ touchOrder' = Touched(touchOrder, {}, after.c.lruList)
    /\ UNCHANGED <<variant, maxCount, ttl, now, conc>>

Next ==
    \/ Tick
    \/ LruUpdateCall
    \/ LruGetCall
    \/ CacheUpdateCall
    \/ CacheGetCall
    \/ CacheDeleteCall

Spec == Init /\ [][Next]_vars

\* ------------------------------------------------ concurrent callers
\* The same methods statement by statement, called by the goroutines in
\* Callers: mutex.Lock(), the body, the eviction pass one loop iteration at
\* a time, mutex.Unlock(); and the statistics accessors, which take no lock.
history == <<ret, lastUpdate, touchOrder>>

Methods == IF variant = "lru" THEN {"Update", "Get"}
           ELSE {"Update", "Get", "Delete"}

\* calls of Get and Delete invoked and not yet counted in reqCount
Pending ==
    Cardinality({q \in Callers :
                    pc[q] \in {"lock", "body"} /\ call[q].op # "Update"})

\* a variant of CanLock that lets a caller in while the mutex is held
MutCanLock(m) == TRUE

\* cache.mutex.Lock() returns only when no caller holds the mutex
CanLock(m) == m = NoHolder

\* a goroutine calls Update, Get or Delete
Invoke(p) ==
    /\ pc[p] = "idle"
    /\ \E op \in Methods, key \in ConcKeys, value \in ConcValues :
        /\ op # "Update" => reqCount + Pending < MaxReq
        /\ call' = [call EXCEPT ![p] =
                       [op |-> op, key |-> key,
                        arg |-> IF op = "Update" THEN value ELSE NoValue,
                        val |-> NoValue, err |-> "nil"]]
    /\ pc' = [pc EXCEPT ![p] = "lock"]
    /\ UNCHANGED <<variant, maxCount, ttl, lruList, lruMap, keyCount,
                   reqCount, hitCount, now, history, mutex, snap, seen>>

\* cache.mutex.Lock()
Lock(p) ==
    /\ pc[p] = "lock"
    /\ CanLock(mutex)
    /\ mutex' = p
    /\ snap' = [c |-> Cache, t1 |-> -1, t2 |-> -1]
    /\ pc' = [pc EXCEPT ![p] = "body"]
    /\ UNCHANGED <<variant, maxCount, ttl, lruList, lruMap, keyCount,
                   reqCount, hitCount, now, history, call, seen>>

\* the statements between Lock and the eviction pass or the return
Body(p) ==
    /\ pc[p] = "body"
    /\ LET op  == call[p].op
           key == call[p].key
           r   == IF op = "Update"
                  THEN [c |-> UpdateBody(Cache, key, call[p].arg, now),
                        val |-> NoValue, err |-> "nil"]
                  ELSE IF op = "Get" THEN GetBody(Cache, key, now)
                  ELSE DeleteBody(Cache, key)
       IN  /\ Store(r.c)
           /\ call' = [call EXCEPT ![p].val = r.val, ![p].err = r.err]
           /\ pc' = [pc EXCEPT ![p] =
                        IF variant = "lru" THEN "check"
                        ELSE IF op = "Update" /\ key \notin DOMAIN lruMap
                             THEN "loop"
                             ELSE "unlock"]
    /\ snap' = [snap EXCEPT !.t1 = now]
    /\ UNCHANGED <<variant, maxCount, ttl, now, history, mutex, seen>>

\* src/lru.go checkWithLocked: now := time.Now().Unix()
CheckRead(p) ==
    /\ pc[p] = "check"
    /\ snap' = [snap EXCEPT !.t2 = now]
    /\ pc' = [pc EXCEPT ![p] = "loop"]
    /\ UNCHANGED <<variant, maxCount, ttl, lruList, lruMap, keyCount,
                   reqCount, hitCount, now, history, mutex, call, seen>>

\* one test of the loop condition of checkWithLocked and, when the loop
\* goes on, one iteration
Loop(p) ==
    /\ pc[p] = "loop"
    /\ LET done ==
               IF variant = "lru"
               THEN \/ lruList = <<>>
                    \/ /\ keyCount <= maxCount
                       /\ snap.t2 < Head(lruList).createAt + ttl
               ELSE ~(keyCount > maxCount /\ lruList # <<>>)
       IN  IF done
           THEN /\ pc' = [pc EXCEPT ![p] = "unlock"]
                /\ UNCHANGED <<lruList, lruMap, keyCount, reqCount, hitCount>>
           ELSE /\ Store(RemoveFront(Cache))
                /\ UNCHANGED pc
    /\ UNCHANGED <<variant, maxCount, ttl, now, history, mutex, call, snap,
                   seen>>

\* cache.mutex.Unlock(), deferred, and the return
Unlock(p) ==
    /\ pc[p] = "unlock"
    /\ mutex' = NoHolder
    /\ snap' = NoSnap
    /\ pc' = [pc EXCEPT ![p] = "idle"]
    /\ call' = [call EXCEPT ![p] = NoCall]
    /\ UNCHANGED <<variant, maxCount, ttl, lruList, lruMap, keyCount,
                   reqCount, hitCount, now, history, seen>>

\* GetKeysCount / GetKeyCount: return cache.keyCount, with no Lock.  Racing
\* with a writer, the read returns the field's value now or, the write not
\* yet visible to it, the value from before the critical section.
Read ==
    /\ \E v \in {keyCount} \cup
                (IF mutex # NoHolder THEN {snap.c.keyCount} ELSE {}) :
          seen' = [keyCount |-> v, locked |-> mutex # NoHolder]
    /\ UNCHANGED <<variant, maxCount, ttl, lruList, lruMap, keyCount,
                   reqCount, hitCount, now, history, mutex, pc, call, snap>>

\* the clock advances, also while a call is under way
ConcTick ==
    /\ now < MaxTime
    /\ now' = now + 1
    /\ UNCHANGED <<variant, maxCount, ttl, lruList, lruMap, keyCount,
                   reqCount, hitCount, history, conc>>

InitConc ==
    /\ Init
    /\ maxCount \in ConcCapacities
    /\ ttl \in ConcTTLs

Step(p) == Body(p) \/ CheckRead(p) \/ Loop(p) \/ Unlock(p)

NextConc ==
    \/ \E p \in Callers : Invoke(p)
    \/ \E p \in Callers : Lock(p)
    \/ \E p \in Callers : Body(p)
    \/ \E p \in Callers : CheckRead(p)
    \/ \E p \in Callers : Loop(p)
    \/ \E p \in Callers : Unlock(p)
    \/ Read
    \/ ConcTick

\* the Go scheduler runs every runnable goroutine again, and sync.Mutex
\* hands the mutex to a goroutine that keeps waiting for it (starvation
\* mode)
Fairness ==
    \A p \in Callers : WF_vars(Step(p)) /\ SF_vars(Lock(p))

SpecConc == InitConc /\ [][NextConc]_vars /\ Fairness

\* =================================================================== claims
\* the step is a call of Get(k), Update(k, _), Delete(k)
GetStep(k)    == ret'.op = "Get" /\ ret'.key = k
UpdateStep(k) == ret'.op = "Update" /\ ret'.key = k
DeleteStep(k) == ret'.op = "Delete" /\ ret'.key = k

\* k was last updated ttl or more before the clock value `now'
StaleFor(k) ==
    \/ lastUpdate[k].state = "live" /\ now - lastUpdate[k].at >= ttl
    \/ lastUpdate[k].state = "expired"

\* k was last updated less than ttl before `now', and since then neither
\* evicted for capacity nor deleted
FreshFor(k) == lastUpdate[k].state = "live" /\ now - lastUpdate[k].at < ttl

\* C1: in both variants, whenever an operation has returned, the live key
\* count is at most the capacity (the capacities built are all >= 0).
C1_CapacityBound == keyCount <= maxCount

\* an Update of a new key that found the cache full has returned, the pass
\* having evicted one entry
C1_Witness ==
    /\ ret.op = "Update" /\ ret.branch = "new" /\ ret.swept = 1
    /\ maxCount = 2 /\ keyCount = maxCount

\* C2 as stated: a Get of a key whose last Update is ttl or more before the
\* clock value Get reads returns NotFound, leaves the hit counter alone and,
\* when the entry was still stored, removes it from map and list and lowers
\* keyCount by exactly one.
C2_Original ==
    [][\A k \in Keys : (GetStep(k) /\ StaleFor(k)) =>
          /\ ret'.err = "NotFound"
          /\ hitCount' = hitCount
          /\ k \in DOMAIN lruMap =>
                /\ k \notin DOMAIN lruMap'
                /\ k \notin KeySet(lruList')
                /\ keyCount' = keyCount - 1]_vars

\* C2 amended: as C2, but keyCount falls by one plus the number of further
\* entries removed by the eviction pass that src/lru.go defers to the end of
\* Get (none in src/lru_cache.go, whose Get runs no pass).
C2_ExpiredNeverHit ==
    [][\A k \in Keys : (GetStep(k) /\ StaleFor(k)) =>
          /\ ret'.err = "NotFound"
          /\ ret'.val = NoValue
          /\ hitCount' = hitCount
          /\ variant = "cache" => ret'.swept = 0
          /\ k \in DOMAIN lruMap =>
                /\ k \notin DOMAIN lruMap'
                /\ k \notin KeySet(lruList')
                /\ keyCount' = keyCount - 1 - ret'.swept]_vars

\* a Get found its key's entry expired and removed it
C2_Witness ==
    /\ ret.op = "Get" /\ ret.branch = "expire" /\ ret.err = "NotFound"
    /\ lastUpdate[ret.key].state = "expired"
    /\ ret.key \notin DOMAIN lruMap
    /\ hitCount = 0 /\ reqCount = 1

\* C3: a Get of a key whose last Update(k, v) is less than ttl before the
\* clock value Get reads, and which was since neither evicted for capacity
\* nor deleted, returns v and no error; no entry leaves the cache before its
\* ttl has passed except by a capacity eviction or a Delete.
C3_FreshReturned ==
    [][/\ \A k \in Keys : (GetStep(k) /\ FreshFor(k)) =>
             /\ ret'.err = "nil"
             /\ ret'.val = lastUpdate[k].value
       /\ \A k \in Keys : lastUpdate'[k].state # "lost"]_vars

\* a Get returned the value of an Update that overwrote an older one, one
\* second after that Update
C3_Witness ==
    /\ ret.op = "Get" /\ ret.err = "nil" /\ ret.val = "v2"
    /\ lastUpdate[ret.key] = [state |-> "live", at |-> 1, value |-> "v2"]
    /\ now = 2 /\ ttl = 2

\* how often key k occurs in list l
Occurrences(l, k) == Cardinality({i \in 1 .. Len(l) : l[i].key = k})

\* C4: the list is ordered front-to-back by ascending time of last touch
\* (Update, or Get that returned a value); and an Update of a new key that
\* pushes keyCount above maxCount while no entry is expired removes exactly
\* the entry touched longest ago and keeps every other key stored.
C4_LruOrder ==
    /\ [](KeysOf(lruList) = touchOrder)
    /\ [][\A k \in Keys :
            ( /\ UpdateStep(k)
              /\ k \notin DOMAIN lruMap
              /\ keyCount = maxCount
              /\ now' < now + ttl
              /\ \A i \in 1 .. Len(lruList) :
                    now' < lruList[i].createAt + ttl )
            => /\ KeysOf(lruList') = Tail(Append(touchOrder, k))
               /\ DOMAIN lruMap' = KeySet(lruList')
               /\ ret'.swept = 1]_vars

\* capacity 2: Update(a), Update(b), Get(a), Update(c) has evicted b and
\* kept a and c
C4_Witness ==
    /\ maxCount = 2
    /\ ret.op = "Update" /\ ret.key = "c" /\ ret.swept = 1
    /\ reqCount = 1 /\ hitCount = 1
    /\ KeysOf(lruList) = <<"a", "c">>
    /\ DOMAIN lruMap = {"a", "c"}
    /\ lastUpdate["b"] = Evicted

\* C5 as stated: after Update(k, v') on a key that has an entry, k has
\* exactly one entry, at the most-recent end, holding v' and the time
\* Update read.
C5_Original ==
    [][\A k \in Keys : (UpdateStep(k) /\ k \in DOMAIN lruMap) =>
          /\ Occurrences(lruList', k) = 1
          /\ lruList'[Len(lruList')] =
                [key |-> k, value |-> ret'.arg, createAt |-> now]]_vars

\* C5 amended: Update(k, v') on a key that has an entry never creates a
\* second entry; when Update returns, the entry is at the most-recent end
\* with value v' and createAt the time Update read, unless the eviction pass
\* deferred to the end of Update in src/lru.go read a clock value ttl or
\* more past that time and removed the entry as expired.
C5_RecencyRefreshOnWrite ==
    [][\A k \in Keys : (UpdateStep(k) /\ k \in DOMAIN lruMap) =>
          /\ keyCount' = keyCount - ret'.swept
          /\ IF k \in KeySet(lruList')
             THEN /\ Occurrences(lruList', k) = 1
                  /\ k \in DOMAIN lruMap'
                  /\ lruList'[Len(lruList')] =
                        [key |-> k, value |-> ret'.arg, createAt |-> now]
             ELSE /\ variant = "lru"
                  /\ now' - now >= ttl
                  /\ k \notin DOMAIN lruMap']_vars

\* an Update has overwritten the entry of a key stored in front of another
\* one, and that entry is now behind it with the new value and time
C5_Witness ==
    /\ ret.op = "Update" /\ ret.branch = "exist" /\ ret.arg = "v2"
    /\ Len(lruList) = 2
    /\ lruList[1].createAt = 0
    /\ lruList[2] = [key |-> ret.key, value |-> "v2", createAt |-> 1]
    /\ keyCount = 2

\* C6: every Get raises the request counter by exactly one, and the hit
\* counter by exactly one when it returns a value and not at all when it
\* returns the NotFound error.
C6_GetCounting ==
    [][\A k \in Keys : GetStep(k) =>
          /\ reqCount' = reqCount + 1
          /\ ret'.err = "nil" =>
                hitCount' = hitCount + 1 /\ ret'.val \in Values
          /\ ret'.err # "nil" =>
                hitCount' = hitCount /\ ret'.val = NoValue]_vars

\* one Update followed by one fresh Get of that key: requests 1, hits 1
C6_Witness ==
    /\ ret.op = "Get" /\ ret.err = "nil" /\ ret.branch = "hit"
    /\ reqCount = 1 /\ hitCount = 1

\* C7: no Update, whether it inserts, overwrites or evicts, changes the
\* request counter or the hit counter.
C7_UpdateKeepsStatistics ==
    [][\A k \in Keys : UpdateStep(k) =>
          reqCount' = reqCount /\ hitCount' = hitCount]_vars

\* an inserting Update that evicted an entry has returned with the counters
\* at the values two earlier Gets left
C7_Witness ==
    /\ ret.op = "Update" /\ ret.branch = "new" /\ ret.swept = 1
    /\ reqCount = 2 /\ hitCount = 1

\* C8 as stated: a Get of a never-inserted key returns NotFound and leaves
\* the live key count as it was.
C8_Original ==
    [][\A k \in Keys : (GetStep(k) /\ lastUpdate[k] = Never) =>
          /\ ret'.err = "NotFound"
          /\ keyCount' = keyCount]_vars

\* C8 amended: a Get of a never-inserted key returns NotFound and adds no
\* entry; in src/lru_cache.go it leaves map, list and key count as they
\* were; in src/lru.go the deferred eviction pass may remove entries from
\* the front of the list, each of them expired at the clock value the pass
\* read, and the key count falls by their number.
C8_IdempotentMiss ==
    [][\A k \in Keys : (GetStep(k) /\ lastUpdate[k] = Never) =>
          /\ ret'.err = "NotFound"
          /\ ret'.branch = "miss"
          /\ hitCount' = hitCount
          /\ variant = "cache" => UNCHANGED <<lruList, lruMap, keyCount>>
          /\ keyCount' = keyCount - ret'.swept
          /\ ret'.swept \in 0 .. Len(lruList)
          /\ lruList' = SubSeq(lruList, ret'.swept + 1, Len(lruList))
          /\ DOMAIN lruMap' = KeySet(lruList')
          /\ \A i \in 1 .. ret'.swept :
                now' >= lruList[i].createAt + ttl]_vars

\* in src/lru.go a Get of a never-inserted key has swept an expired entry
C8_Witness ==
    /\ variant = "lru"
    /\ ret.op = "Get" /\ ret.branch = "miss" /\ ret.swept = 1
    /\ lastUpdate[ret.key] = Never
    /\ keyCount = 1

\* C9: between calls, the keys of lruMap are the keys of the entries in
\* lruList, each key is in exactly one list element, lruMap[key] is that
\* element, and keyCount is both the map size and the list length.
C9_Bijection ==
    /\ DOMAIN lruMap = KeySet(lruList)
    /\ \A k \in DOMAIN lruMap :
          /\ Occurrences(lruList, k) = 1
          /\ lruMap[k] \in KeySet(lruList)
          /\ Element(lruList, lruMap[k]).key = k
    /\ keyCount = Cardinality(DOMAIN lruMap)
    /\ keyCount = Len(lruList)

\* a Delete has removed one of two stored entries after an earlier Get
C9_Witness ==
    /\ ret.op = "Delete" /\ ret.err = "nil"
    /\ reqCount = 2
    /\ keyCount = 1 /\ Len(lruList) = 1
    /\ DOMAIN lruMap = {lruList[1].key}

\* C10: every Delete raises the request counter by one; on a key with an
\* entry, past its ttl or not, it removes the entry from map and list,
\* lowers keyCount by one, raises the hit counter by one and returns nil;
\* on a key with no entry it returns ErrKeyNotFound and leaves map, list,
\* keyCount and hit counter as they were.
C10_Delete ==
    [][\A k \in Keys : DeleteStep(k) =>
          /\ variant = "cache"
          /\ reqCount' = reqCount + 1
          /\ IF k \in DOMAIN lruMap
             THEN /\ ret'.err = "nil"
                  /\ DOMAIN lruMap' = DOMAIN lruMap \ {k}
                  /\ lruList' = SelectSeq(lruList, LAMBDA e : e.key # k)
                  /\ keyCount' = keyCount - 1
                  /\ hitCount' = hitCount + 1
             ELSE /\ ret'.err = "NotFound"
                  /\ UNCHANGED <<lruMap, lruList, keyCount, hitCount>>]_vars

\* with ttl 0, where every stored entry is past its ttl, a Delete has
\* removed an entry and counted a hit
C10_Witness ==
    /\ ttl = 0
    /\ ret.op = "Delete" /\ ret.err = "nil"
    /\ reqCount = 1 /\ hitCount = 1
    /\ keyCount = 1

\* C13 as stated: every Get that returns a value sets the entry's createAt
\* to the clock value Get read (and so restarts its ttl).
C13_Original ==
    [][\A k \in Keys :
          (GetStep(k) /\ ret'.err = "nil" /\ k \in KeySet(lruList')) =>
              Element(lruList', k).createAt = now]_vars

\* C14: with ttl <= 0 every Get returns the NotFound error and leaves the
\* hit counter as it was.
C14_NonPositiveTtl ==
    [][\A k \in Keys : (GetStep(k) /\ ttl <= 0) =>
          /\ ret'.err = "NotFound"
          /\ ret'.val = NoValue
          /\ hitCount' = hitCount]_vars

\* with ttl 0, a Get in the very second of the key's Update found the entry
\* and removed it as expired
C14_Witness ==
    /\ ttl = 0 /\ now = 0
    /\ ret.op = "Get" /\ ret.branch = "expire" /\ ret.err = "NotFound"
    /\ hitCount = 0 /\ reqCount = 1

\* C16 as stated: the createAt values of the list's entries are
\* non-decreasing from front to back.
C16_Original ==
    \A i \in 1 .. Len(lruList) - 1 :
        lruList[i].createAt <= lruList[i + 1].createAt

\* the cache the body of the call of this step leaves to the deferred pass
\* (src/lru.go)
BodyOfStep ==
    IF ret'.op = "Update"
    THEN UpdateBody(Cache, ret'.key, ret'.arg, now)
    ELSE GetBody(Cache, ret'.key, now).c

\* C17: in src/lru.go every Update and every Get ends with the eviction
\* pass; the pass removes entries from the front only, each from map and
\* list with keyCount lowered by one, and leaves the list empty or else
\* keyCount <= maxCount and a front entry with now < createAt + ttl for the
\* clock value the pass read.
C17_PassPostcondition ==
    [][(variant = "lru" /\ ret'.op \in {"Update", "Get"}) =>
          LET body == BodyOfStep
              n    == ret'.swept
          IN  /\ n \in 0 .. Len(body.lruList)
              /\ lruList' = SubSeq(body.lruList, n + 1, Len(body.lruList))
              /\ DOMAIN lruMap' =
                    DOMAIN body.lruMap \ {body.lruList[i].key : i \in 1 .. n}
              /\ keyCount' = body.keyCount - n
              /\ \/ lruList' = <<>>
                 \/ /\ keyCount' <= maxCount
                    /\ now' < Head(lruList').createAt + ttl]_vars

\* in src/lru.go the pass at the end of a Get has removed one entry and
\* stopped at a front entry that is not expired
C17_Witness ==
    /\ variant = "lru"
    /\ ret.op = "Get" /\ ret.swept = 1
    /\ Len(lruList) = 1
    /\ now < Head(lruList).createAt + ttl

\* C18: a cache built with capacity 0 is empty whenever a call has
\* returned, the entry an Update has just inserted included, and every Get
\* on it returns the NotFound error.
C18_CapacityZero ==
    /\ [](maxCount = 0 =>
             lruList = <<>> /\ DOMAIN lruMap = {} /\ keyCount = 0)
    /\ [][\A k \in Keys : (GetStep(k) /\ maxCount = 0) =>
             ret'.err = "NotFound" /\ ret'.branch = "miss"]_vars

\* with capacity 0 and a ttl that has not run out, an Update has returned
\* with its own entry evicted
C18_Witness ==
    /\ maxCount = 0 /\ ttl = 2
    /\ ret.op = "Update" /\ ret.branch = "new" /\ ret.swept = 1
    /\ keyCount = 0 /\ lruList = <<>>
    /\ lastUpdate[ret.key] = Evicted

\* the entries of the keys other than k, in list order
Others(l, k) == SelectSeq(l, LAMBDA e : e.key # k)

\* C19: in src/lru_cache.go, Get(k) and Delete(k) leave the entries of all
\* other keys and their order as they were; Update of a stored key removes
\* nothing; and an entry leaves the list only by Get or Delete of its own
\* key or in an inserting Update that pushed keyCount above maxCount.
C19_LazyFrame ==
    [][variant = "cache" =>
          /\ \A k \in Keys : (GetStep(k) \/ DeleteStep(k)) =>
                Others(lruList', k) = Others(lruList, k)
          /\ \A k \in Keys : (UpdateStep(k) /\ k \in DOMAIN lruMap) =>
                /\ Others(lruList', k) = Others(lruList, k)
                /\ KeySet(lruList') = KeySet(lruList)
                /\ keyCount' = keyCount
          /\ \A j \in KeySet(lruList) \ KeySet(lruList') :
                \/ GetStep(j)
                \/ DeleteStep(j)
                \/ /\ ret'.op = "Update" /\ ret'.branch = "new"
                   /\ keyCount + 1 > maxCount]_vars

\* in src/lru_cache.go a Get of one key has returned a value while the
\* entry of another key, past its ttl, is still stored and counted
C19_Witness ==
    /\ variant = "cache"
    /\ ret.op = "Get" /\ ret.err = "nil"
    /\ keyCount = 2 /\ Len(lruList) = 2
    /\ lruList[1].key # ret.key
    /\ now >= lruList[1].createAt + ttl

\* C20: the request counter and the hit counter never decrease; between
\* calls the hit counter is at most the request counter and keyCount >= 0.
C20_CounterSanity ==
    /\ [](hitCount <= reqCount /\ keyCount >= 0)
    /\ [][reqCount' >= reqCount /\ hitCount' >= hitCount]_vars

\* two requests, both hits, have left the cache empty
C20_Witness ==
    /\ reqCount = 2 /\ hitCount = 2 /\ keyCount = 0
    /\ ret.op = "Delete"

\* --------------------------------------------------------- under SpecConc
Critical == {"body", "check", "loop", "unlock"}

\* C11 as stated: no accessor reads a counter while a caller is inside the
\* critical section of Update, Get or Delete, and a key-count read never
\* returns a value greater than maxCount.
C11_Original ==
    /\ seen.locked = FALSE
    /\ seen.keyCount <= maxCount

\* what the call cl returns and the cache it leaves when it runs alone on
\* cache c, reading the clock at t1 in its body and at t2 in its pass
Sequential(c, cl, t1, t2) ==
    IF cl.op = "Update"
    THEN [c   |-> IF variant = "lru"
                  THEN LruUpdate(c, cl.key, cl.arg, t1, t2)
                  ELSE CacheUpdate(c, cl.key, cl.arg, t1),
          val |-> NoValue, err |-> "nil"]
    ELSE LET r == IF cl.op = "Delete" THEN CacheDelete(c, cl.key)
                  ELSE IF variant = "lru" THEN LruGet(c, cl.key, t1, t2)
                  ELSE CacheGet(c, cl.key, t1)
         IN  [c |-> r.c, val |-> r.val, err |-> r.err]

\* C12: at most one caller at a time is between Lock and Unlock; nothing
\* changes the cache between a caller's Lock and its body, or while no
\* caller holds the mutex; and when a caller reaches Unlock the cache and
\* the result it returns are those of its call run alone on the cache it
\* found at Lock.
C12_Serialization ==
    /\ [](/\ \A p, q \in Callers :
                (pc[p] \in Critical /\ pc[q] \in Critical) => p = q
          /\ \A p \in Callers : pc[p] \in Critical <=> mutex = p
          /\ \A p \in Callers : pc[p] = "body" => Cache = snap.c
          /\ \A p \in Callers : pc[p] = "unlock" =>
                LET seq == Sequential(snap.c, call[p], snap.t1,
                                      IF snap.t2 = -1 THEN snap.t1
                                      ELSE snap.t2)
                IN  /\ Cache = seq.c
                    /\ call[p].val = seq.val
                    /\ call[p].err = seq.err)
    /\ [][(mutex = NoHolder /\ mutex' = NoHolder) => Cache' = Cache]_vars

\* a caller is about to unlock after an Update that evicted an entry, while
\* the other caller waits in Lock
C12_Witness ==
    /\ pc["g1"] = "unlock" /\ pc["g2"] = "lock"
    /\ mutex = "g1"
    /\ call["g1"].op = "Update"
    /\ maxCount = 1 /\ snap.c.keyCount = 1 /\ keyCount = 1
    /\ KeySet(lruList) # KeySet(snap.c.lruList)

\* C15: under fair scheduling every call that was invoked returns, a caller
\* outside the critical section does not hold the mutex, and every iteration
\* of the eviction loop that does not leave it removes one list element.
C15_EveryCallReturns ==
    /\ \A p \in Callers : (pc[p] # "idle") ~> (pc[p] = "idle")
    /\ [](\A p \in Callers : pc[p] \in {"idle", "lock"} => mutex # p)
    /\ [][\A p \in Callers :
              (pc[p] = "loop" /\ pc'[p] = "loop" /\ Cache' # Cache) =>
                  Len(lruList') = Len(lruList) - 1]_vars

\* a caller is inside the eviction loop with an entry to remove while the
\* other caller waits in Lock
C15_Witness ==
    /\ pc["g1"] = "loop" /\ pc["g2"] = "lock"
    /\ mutex = "g1"
    /\ keyCount > maxCount /\ lruList # <<>>

====
